---- MODULE Spec2Model ----
(***************************************************************************)
(* EcomShop: the cart context (CartContext.tsx), the order service         *)
(* (orderService.ts) and the checkout submit handler, run against the      *)
(* relational store declared in the Supabase migration.                    *)
(*                                                                         *)
(* Every handler is an async function.  It runs synchronously up to its    *)
(* first await; every await is one request to the store: a step executes   *)
(* the request atomically and runs the handler on to its next await.       *)
(* A handler in flight is a task; tasks of the same                        *)
(* or of different cart contexts (browser tabs) interleave at the awaits.  *)
(* Prices are counted in cents, so decimal(10,2) values are integers.      *)
(***************************************************************************)
EXTENDS Integers, FiniteSets, Sequences, TLC

\* ------------------------------------------------------------------ bounds
MaxLineQty == 2
MaxCartId == 2
MaxOrders == 1

\* ---------------------------------------------------------------- universe
Users == {"u1", "u2"}
Products == {"p1", "p2"}
Ctxs == {"c1", "c2"}
Tasks == {"t1", "t2"}
NoUser == "nobody"
NoProduct == "noproduct"
NoId == 0 - 1

\* sample prices in cents (products.price CHECK (price > 0)) and sample
\* quantity arguments, negative and zero included
Prices == {1, 2}
InputQtys == {0 - 1, 0, 1}
CartIds == 1..MaxCartId
OrderIds == 1..MaxOrders

\* ShippingAddress: its fields, a filled-in value, and the sample addresses with
\* one field empty ('') or absent (undefined)
AddrFields == {"full_name", "phone", "street", "city", "state", "postal_code", "country"}
Missing == "undefined"
FullAddress == [f \in AddrFields |-> "x"]
NoAddress == [f \in AddrFields |-> Missing]
Addresses ==
  {FullAddress} \cup {[FullAddress EXCEPT ![f] = v] : f \in AddrFields, v \in {"", Missing}}
AddressComplete(a) == \A f \in AddrFields : a[f] \notin {"", Missing}

\* products.category_id, and names and descriptions as strings of characters
Categories == {"k1", "k2"}
Chars == {"a", "A", "b", "_", "%"}
MaxTextLen == 2
Texts == UNION {[1..n -> Chars] : n \in 1..MaxTextLen}
Catalogs == [Products -> [name : Texts, description : Texts, category_id : Categories]]
SeedCatalog ==
  [p \in Products |-> [name |-> <<"a">>, description |-> <<"b">>, category_id |-> "k1"]]

\* FilterOptions: every field optional. category is a string or undefined; an
\* optional number or search term is the empty set (undefined) or a singleton
NoFilters == [category |-> Missing, minPrice |-> {}, maxPrice |-> {}, search |-> {}]
FilterInputs ==
  [category : {Missing, "", "k1"},
   minPrice : {{}, {0}, {2}},
   maxPrice : {{}, {0}, {1}},
   search   : {{}} \cup {{x} : x \in Texts \cup {<<>>}}]

\* getFeaturedProducts(limit)
Limits == {1, 2}

\* products.stock_quantity CHECK (stock_quantity >= 0): sample values, and the
\* stock the cart and order handlers are run against
Stocks == {0, 1}
SeedStock == [p \in Products |-> 1]

VARIABLES
  user,         \* AuthContext's user of each cart context (browser tab)
  products,     \* store: products table, product id -> [price]
  cart_items,   \* store: cart_items rows
  orders,       \* store: orders rows
  order_items,  \* store: order_items rows
  nextCartId,   \* store: next fresh cart_items.id
  nextOrderId,  \* store: next fresh orders.id
  cartItems,    \* CartProvider state per context: the rows last loaded
  pc,           \* per task: the request the handler is waiting on
  call,         \* per task: the handler invocation (arguments, locals, outcome)
  hist,         \* whether the history mon is recorded in this behaviour
  mon,          \* per user: history of the last two addToCart calls
  rlsOn,        \* store: whether the row level security policies are enforced
  is_active,    \* store: products.is_active, product id -> boolean
  catalog,      \* store: products' name, description and category_id
  wishlist_items, \* store: number of wishlist_items rows per (user_id, product_id)
  user_profiles, \* store: number of user_profiles rows per id
  stock_quantity, \* store: products.stock_quantity, product id -> number
  orderCap      \* how many orders the store takes in this behaviour (bounds orders.id)

vars == <<user, products, cart_items, orders, order_items, nextCartId, nextOrderId,
          cartItems, pc, call, hist, mon, rlsOn, is_active, catalog, wishlist_items,
          user_profiles, stock_quantity, orderCap>>

\* what the cart and order handlers never write
auxVars == <<hist, rlsOn, is_active, catalog, wishlist_items, user_profiles, stock_quantity,
             orderCap>>

\* what the wishlist and profile services never write
shopVars == <<user, products, cart_items, orders, order_items, nextCartId, nextOrderId,
              cartItems>>
settingVars == <<hist, rlsOn, is_active, catalog, stock_quantity, orderCap>>

storeVars == <<user, products, cart_items, orders, order_items, nextCartId, nextOrderId, auxVars>>

\* ------------------------------------------------------------ store schema
\* cart_items.quantity CHECK (quantity > 0)
CartQuantityCheck(quantity) == quantity > 0

\* the table declared without its UNIQUE(user_id, product_id)
CartUniqueMissing(rows, userId, productId) == TRUE

\* cart_items UNIQUE(user_id, product_id)
CartUniqueOk(rows, userId, productId) ==
  ~\E r \in rows : r.user_id = userId /\ r.product_id = productId

\* the check written as total_amount >= 0
OrderTotalCheckNonNegative(total) == total >= 0

\* orders.total_amount CHECK (total_amount > 0)
OrderTotalCheck(total) == total > 0

\* the table declared without its UNIQUE(user_id, product_id)
WishUniqueMissing(count) == TRUE

\* wishlist_items UNIQUE(user_id, product_id), given the number of rows of the pair
WishUniqueOk(count) == count = 0

\* user_profiles.id PRIMARY KEY, given the number of rows of the id
ProfilePkOk(count) == count = 0

\* the delete read back with .single(), an error when it matched no row
DeleteOutcomeStrict(count) == IF count = 0 THEN "notfound" ELSE "none"

\* a delete that matches no row reports no error
DeleteOutcome(count) == "none"

\* orders.status CHECK (status IN (...)), the values of ORDER_STATUSES
OrderStatuses == {"pending", "processing", "shipped", "delivered", "cancelled"}
OrderStatusCheck(status) == status \in OrderStatuses

\* createOrder written with another status than 'pending'
InitialStatusProcessing == "processing"

\* status: 'pending' in createOrder's insert
InitialStatus == "pending"

\* order_items CHECK (quantity > 0), CHECK (price > 0)
OrderItemCheck(oi) == oi.quantity > 0 /\ oi.price > 0

\* Row level security on cart_items: USING (auth.uid() = user_id)
CartRls(uid, row) == rlsOn => uid = row.user_id

\* Row level security on orders and, through the order, on order_items
OrderRls(uid, row) == rlsOn => uid = row.user_id

\* the products policy written USING (true)
ProductVisibleAll(p) == TRUE

\* Row level security on products: USING (is_active = true)
ProductVisible(p) == rlsOn => is_active[p]

\* ------------------------------------------------------------ pure helpers
\* select *, products(...) from cart_items where user_id = userId
\* the embedded products(...) is null when the policy hides the product row
Joined(row) ==
  [id |-> row.id, user_id |-> row.user_id, product_id |-> row.product_id,
   quantity |-> row.quantity,
   products |-> IF ProductVisible(row.product_id)
                THEN [price |-> products[row.product_id].price, isNull |-> FALSE]
                ELSE [price |-> 0, isNull |-> TRUE]]

SelectCart(uid, userId) ==
  {Joined(r) : r \in {x \in cart_items : CartRls(uid, x) /\ x.user_id = userId}}

\* cartItems.reduce((sum, item) => sum + (item.products.price * item.quantity), 0)
RECURSIVE TotalAmount(_)
TotalAmount(items) ==
  IF items = {} THEN 0
  ELSE LET x == CHOOSE y \in items : TRUE
       IN  x.products.price * x.quantity + TotalAmount(items \ {x})

\* cartItems.reduce((sum, item) => sum + item.quantity, 0)
RECURSIVE totalItems(_)
totalItems(items) ==
  IF items = {} THEN 0
  ELSE LET item == CHOOSE y \in items : TRUE
       IN  item.quantity + totalItems(items \ {item})

\* the reduce adding the price of each item once, whatever its quantity
RECURSIVE totalAmountPerLine(_)
totalAmountPerLine(items) ==
  IF items = {} THEN 0
  ELSE LET item == CHOOSE y \in items : TRUE
           price == IF item.products.isNull THEN 0 ELSE item.products.price
       IN  price + totalAmountPerLine(items \ {item})

\* cartItems.reduce((sum, item) => sum + (item.products?.price || 0) * item.quantity, 0)
RECURSIVE totalAmount(_)
totalAmount(items) ==
  IF items = {} THEN 0
  ELSE LET item == CHOOSE y \in items : TRUE
           price == IF item.products.isNull THEN 0 ELSE item.products.price
       IN  price * item.quantity + totalAmount(items \ {item})

\* cartItems.map(item => ({order_id, product_id, quantity, price: item.products.price}))
OrderItemsOf(items, orderId) ==
  {[order_id |-> orderId, product_id |-> x.product_id,
    quantity |-> x.quantity, price |-> x.products.price] : x \in items}

\* JavaScript truthiness of an optional string: undefined and '' are falsy
Truthy(str) == str \notin {Missing, ""}

\* lower(ch), as ILIKE folds case
Lower(ch) == IF ch = "A" THEN "a" ELSE ch

\* text LIKE pattern with the case folded: % matches any run of characters,
\* _ any one character
RECURSIVE ILike(_, _)
ILike(pattern, text) ==
  IF pattern = <<>> THEN text = <<>>
  ELSE IF Head(pattern) = "%"
  THEN ILike(Tail(pattern), text) \/ (text # <<>> /\ ILike(pattern, Tail(text)))
  ELSE /\ text # <<>>
       /\ Head(pattern) = "_" \/ Lower(Head(pattern)) = Lower(Head(text))
       /\ ILike(Tail(pattern), Tail(text))

\* name.ilike.%search%,description.ilike.%search% joined by or
SearchMatches(search, p) ==
  \/ ILike(<<"%">> \o search \o <<"%">>, catalog[p].name)
  \/ ILike(<<"%">> \o search \o <<"%">>, catalog[p].description)

\* the rows getProducts(filters) selects
ProductsQuery(f) ==
  {p \in Products :
     /\ ProductVisible(p)
     /\ is_active[p]
     /\ Truthy(f.category) => catalog[p].category_id = f.category
     /\ \A v \in f.minPrice : products[p].price >= v
     /\ \A v \in f.maxPrice : products[p].price <= v
     /\ \A x \in f.search : x # <<>> => SearchMatches(x, p)}

\* the delete filtered with .neq('user_id', userId)
CartRowsOfOthers(uid, userId) ==
  {r \in cart_items : CartRls(uid, r) /\ r.user_id # userId}

\* the rows a delete().eq('user_id', userId) issued as uid removes
CartRowsOfUser(uid, userId) ==
  {r \in cart_items : CartRls(uid, r) /\ r.user_id = userId}

\* the delegation written as quantity < 0
UpdateTargetNegativeOnly(quantity) == IF quantity < 0 THEN "delete" ELSE "update"

\* updateCartItem: quantity <= 0 delegates to removeFromCart
UpdateTarget(quantity) == IF quantity <= 0 THEN "delete" ELSE "update"

\* the order page showing item.products.price, which getOrderById also selects
OrderLinePriceLive(oi) == products[oi.product_id].price

\* the price an order line shows: order_items.price (item.price)
OrderLinePrice(oi) == oi.price

\* ----------------------------------------------------------- task records
NoPrices == [p \in Products |-> 0]

NoCall ==
  [op |-> "none", ctx |-> "noctx", user |-> NoUser, productId |-> NoProduct,
   argQty |-> 0, nItems |-> 0, itemId |-> NoId, quantity |-> 0,
   cartItems |-> {}, orderId |-> NoId, err |-> "none",
   netfail |-> FALSE, pricesAtCall |-> NoPrices,
   address |-> NoAddress, result |-> {}, exposed |-> {}, filters |-> NoFilters,
   lineAtCall |-> 0, overlapped |-> FALSE, auth |-> NoUser]

\* what the caller sees of a call that returned or raised: arguments, the
\* outcome, and whether console.error logged a failed request
Outcome(c, err) ==
  [NoCall EXCEPT !.op = c.op, !.user = c.user, !.argQty = c.argQty,
                 !.nItems = c.nItems, !.itemId = c.itemId,
                 !.orderId = c.orderId, !.err = err, !.netfail = c.netfail,
                 !.productId = c.productId, !.result = c.result,
                 !.exposed = c.exposed, !.filters = c.filters,
                 !.lineAtCall = c.lineAtCall, !.overlapped = c.overlapped]

\* the calls of user u that are still running
InFlight(u) == {t \in Tasks : pc[t] \notin {"idle", "done"} /\ call[t].user = u}

LineQty(u, p) ==
  IF \E r \in cart_items : r.user_id = u /\ r.product_id = p
  THEN (CHOOSE r \in cart_items : r.user_id = u /\ r.product_id = p).quantity
  ELSE 0

\* history of addToCart(u, p, q1) followed, after it returned, by addToCart(u, p, q2)
NoMon == [stage |-> "none", p |-> NoProduct, q1 |-> 0, q2 |-> 0]

MonStart(c) ==
  LET m == mon[c.user]
  IN  IF c.op = "addToCart" /\ c.argQty >= 1 /\ InFlight(c.user) = {}
      THEN IF m.stage = "between" /\ m.p = c.productId
           THEN [m EXCEPT !.stage = "second", !.q2 = c.argQty]
           ELSE IF LineQty(c.user, c.productId) = 0
           THEN [stage |-> "first", p |-> c.productId, q1 |-> c.argQty, q2 |-> 0]
           ELSE NoMon
      ELSE NoMon

MonEnd(c, err) ==
  LET m == mon[c.user]
  IN  IF m.stage = "first"
      THEN IF err = "none" /\ ~c.netfail THEN [m EXCEPT !.stage = "between"] ELSE NoMon
      ELSE IF m.stage = "second"
      THEN IF c.netfail THEN NoMon ELSE [m EXCEPT !.stage = "done"]
      ELSE m

\* history of a call: the stored quantity of its product's line when it
\* began, and whether another call of the same user was running then
Started(c) ==
  IF hist
  THEN [c EXCEPT !.lineAtCall = LineQty(c.user, c.productId),
                 !.overlapped = InFlight(c.user) # {}]
  ELSE c

\* the call of task t starts with the first request `first`
Begin(t, first, c) ==
  /\ pc' = [pc EXCEPT ![t] = first]
  /\ call' = [call EXCEPT ![t] = Started(c)]
  /\ mon' = IF hist THEN [mon EXCEPT ![c.user] = MonStart(c)] ELSE mon

\* the call of task t ends before its first request: it returns or raises err
BeginEnd(t, c, err) ==
  /\ pc' = [pc EXCEPT ![t] = "done"]
  /\ call' = [call EXCEPT ![t] = Outcome(c, err)]
  /\ mon' = IF hist THEN [mon EXCEPT ![c.user] = NoMon] ELSE mon

\* the call of task t goes on to its next request, sent under the session the
\* tab has by then
Goto(t, next, c) ==
  /\ pc' = [pc EXCEPT ![t] = next]
  /\ call' = [call EXCEPT ![t] = [c EXCEPT !.auth = user[c.ctx]]]
  /\ UNCHANGED mon

\* the call of task t returns (err = "none") or raises err
Return(t, c, err) ==
  /\ pc' = [pc EXCEPT ![t] = "done"]
  /\ call' = [call EXCEPT ![t] = Outcome(c, err)]
  /\ mon' = IF hist THEN [mon EXCEPT ![c.user] = MonEnd(c, err)] ELSE mon

\* Both tabs are open on an empty store: useState([]) is also what the mount
\* effect's loadCartItems() leaves when the user's cart holds no row.
Init ==
  /\ user \in {[c \in Ctxs |-> IF c = "c1" THEN "u1" ELSE u] : u \in Users}
  /\ products \in [Products -> [price : Prices]]
  /\ cart_items = {}
  /\ orders = {}
  /\ order_items = {}
  /\ nextCartId = 1
  /\ nextOrderId = 1
  /\ cartItems = [c \in Ctxs |-> {}]
  /\ pc = [t \in Tasks |-> "idle"]
  /\ call = [t \in Tasks |-> NoCall]
  /\ hist \in BOOLEAN
  /\ mon = [u \in Users \cup {NoUser} |-> NoMon]
  /\ rlsOn \in BOOLEAN
  /\ is_active \in [Products -> BOOLEAN]
  /\ catalog \in Catalogs
  /\ wishlist_items = [k \in Users \X Products |-> 0]
  /\ user_profiles = [u \in Users |-> 0]
  /\ stock_quantity \in [Products -> Stocks]
  /\ orderCap \in {MaxOrders, MaxOrders + 1}

\* the store as the cart and order handlers assume it: policies enforced, every
\* product active, the catalog as seeded
Plain ==
  /\ rlsOn = TRUE
  /\ stock_quantity = SeedStock
  /\ orderCap = MaxOrders
  /\ is_active = [p \in Products |-> TRUE]
  /\ catalog = SeedCatalog

\* the auth identity the pending request of task t carries: the session of
\* its tab when the request was sent
Uid(t) == call[t].auth

NewCall(op, c, productId, argQty) ==
  [NoCall EXCEPT !.op = op, !.ctx = c, !.user = user[c], !.auth = user[c],
                 !.productId = productId, !.argQty = argQty]

\* ------------------------------------------------- CartContext: calls
\* addToCart(productId, quantity), up to its first await
AddToCart(t, c, productId, quantity) ==
  /\ pc[t] = "idle"
  /\ LET n == NewCall("addToCart", c, productId, quantity)
         existing == {x \in cartItems[c] : x.product_id = productId}
     IN  IF user[c] = NoUser
         THEN BeginEnd(t, n, "NotLoggedIn")
         ELSE IF existing # {}
         THEN LET existingItem == CHOOSE x \in existing : TRUE
                  q == existingItem.quantity + quantity
              IN  /\ q <= MaxLineQty
                  /\ Begin(t, UpdateTarget(q),
                           [n EXCEPT !.itemId = existingItem.id, !.quantity = q])
         ELSE Begin(t, "insert", [n EXCEPT !.quantity = quantity])
  /\ UNCHANGED <<storeVars, cartItems>>

\* updateCartItem(itemId, quantity), up to its first await
UpdateCartItem(t, c, itemId, quantity) ==
  /\ pc[t] = "idle"
  /\ itemId \in {x.id : x \in cartItems[c]}
  /\ Begin(t, UpdateTarget(quantity),
           [NewCall("updateCartItem", c, NoProduct, quantity)
              EXCEPT !.itemId = itemId, !.quantity = quantity])
  /\ UNCHANGED <<storeVars, cartItems>>

\* removeFromCart(itemId), up to its first await
RemoveFromCart(t, c, itemId) ==
  /\ pc[t] = "idle"
  /\ itemId \in {x.id : x \in cartItems[c]}
  /\ Begin(t, "delete",
           [NewCall("removeFromCart", c, NoProduct, 0)
              EXCEPT !.itemId = itemId])
  /\ UNCHANGED <<storeVars, cartItems>>

\* updateCartItem(itemId, quantity) called with any id, not only one of the
\* lines the cart page shows
UpdateCartItemAny(t, c, itemId, quantity) ==
  /\ pc[t] = "idle"
  /\ Begin(t, UpdateTarget(quantity),
           [NewCall("updateCartItem", c, NoProduct, quantity)
              EXCEPT !.itemId = itemId, !.quantity = quantity])
  /\ UNCHANGED <<storeVars, cartItems>>

\* removeFromCart(itemId) called with any id
RemoveFromCartAny(t, c, itemId) ==
  /\ pc[t] = "idle"
  /\ Begin(t, "delete",
           [NewCall("removeFromCart", c, NoProduct, 0)
              EXCEPT !.itemId = itemId])
  /\ UNCHANGED <<storeVars, cartItems>>

\* clearCart(), up to its first await
ClearCart(t, c) ==
  /\ pc[t] = "idle"
  /\ IF user[c] = NoUser
     THEN BeginEnd(t, NewCall("clearCart", c, NoProduct, 0), "none")
     ELSE Begin(t, "clear", NewCall("clearCart", c, NoProduct, 0))
  /\ UNCHANGED <<storeVars, cartItems>>

\* a CartProvider mounts: useState([]) and the effect's loadCartItems()
Mount(t, c) ==
  /\ pc[t] = "idle"
  /\ \A o \in Tasks : pc[o] \notin {"idle", "done"} => call[o].ctx # c
  /\ cartItems' = [cartItems EXCEPT ![c] = {}]
  /\ IF user[c] = NoUser
     THEN BeginEnd(t, NewCall("mount", c, NoProduct, 0), "none")
     ELSE Begin(t, "load", NewCall("mount", c, NoProduct, 0))
  /\ UNCHANGED storeVars

\* the tab's user becomes null (sign-out): the effect on [user] runs
\* setCartItems([]); requests already sent stay in flight
SignOut(c) ==
  /\ user[c] # NoUser
  /\ user' = [user EXCEPT ![c] = NoUser]
  /\ cartItems' = [cartItems EXCEPT ![c] = {}]
  /\ UNCHANGED <<products, cart_items, orders, order_items, nextCartId, nextOrderId,
                 pc, call, mon, auxVars>>

\* the tab's user becomes u (sign-in): the effect on [user] runs loadCartItems()
SignIn(t, c, u) ==
  /\ pc[t] = "idle"
  /\ user[c] = NoUser
  /\ user' = [user EXCEPT ![c] = u]
  /\ Begin(t, "load", [NewCall("mount", c, NoProduct, 0) EXCEPT !.user = u, !.auth = u])
  /\ UNCHANGED <<products, cart_items, orders, order_items, nextCartId, nextOrderId,
                 cartItems, auxVars>>

\* ------------------------------------------ CartContext: store requests
\* insert([{user_id, product_id, quantity}]) into cart_items
StoreInsertCart(t) ==
  /\ pc[t] = "insert"
  /\ \E fail \in BOOLEAN :
       LET c == call[t]
           row == [id |-> nextCartId, user_id |-> c.user,
                   product_id |-> c.productId, quantity |-> c.quantity]
       IN  IF fail
           THEN /\ Return(t, [c EXCEPT !.netfail = TRUE], "network")
                /\ UNCHANGED <<storeVars, cartItems>>
           ELSE IF ~CartRls(Uid(t), row)
           THEN /\ Return(t, c, "rls")
                /\ UNCHANGED <<storeVars, cartItems>>
           ELSE IF ~CartQuantityCheck(c.quantity)
           THEN /\ Return(t, c, "check")
                /\ UNCHANGED <<storeVars, cartItems>>
           ELSE IF ~CartUniqueOk(cart_items, c.user, c.productId)
           THEN /\ Return(t, c, "unique")
                /\ UNCHANGED <<storeVars, cartItems>>
           ELSE /\ nextCartId <= MaxCartId
                /\ cart_items' = cart_items \cup {row}
                /\ nextCartId' = nextCartId + 1
                /\ Goto(t, "load", c)
                /\ UNCHANGED <<auxVars, user, products, orders, order_items, nextOrderId, cartItems>>

\* the update issued without .eq('id', itemId)
StoreUpdateCartAll(t) ==
  /\ pc[t] = "update"
  /\ \E fail \in BOOLEAN :
       LET c == call[t]
           hit == {r \in cart_items : CartRls(Uid(t), r)}
       IN  IF fail
           THEN /\ Return(t, [c EXCEPT !.netfail = TRUE], "network")
                /\ UNCHANGED <<storeVars, cartItems>>
           ELSE IF hit # {} /\ ~CartQuantityCheck(c.quantity)
           THEN /\ Return(t, c, "check")
                /\ UNCHANGED <<storeVars, cartItems>>
           ELSE /\ cart_items' = (cart_items \ hit) \cup
                                  {[r EXCEPT !.quantity = c.quantity] : r \in hit}
                /\ Goto(t, "load", c)
                /\ UNCHANGED <<auxVars, user, products, orders, order_items, nextCartId,
                               nextOrderId, cartItems>>

\* update({quantity}).eq('id', itemId) on cart_items
StoreUpdateCart(t) ==
  /\ pc[t] = "update"
  /\ \E fail \in BOOLEAN :
       LET c == call[t]
           hit == {r \in cart_items : r.id = c.itemId /\ CartRls(Uid(t), r)}
       IN  IF fail
           THEN /\ Return(t, [c EXCEPT !.netfail = TRUE], "network")
                /\ UNCHANGED <<storeVars, cartItems>>
           ELSE IF hit # {} /\ ~CartQuantityCheck(c.quantity)
           THEN /\ Return(t, c, "check")
                /\ UNCHANGED <<storeVars, cartItems>>
           ELSE /\ cart_items' = (cart_items \ hit) \cup
                                  {[r EXCEPT !.quantity = c.quantity] : r \in hit}
                /\ Goto(t, "load", c)
                /\ UNCHANGED <<auxVars, user, products, orders, order_items, nextCartId,
                               nextOrderId, cartItems>>

\* delete().eq('id', itemId) on cart_items
StoreDeleteCart(t) ==
  /\ pc[t] = "delete"
  /\ \E fail \in BOOLEAN :
       LET c == call[t]
           hit == {r \in cart_items : r.id = c.itemId /\ CartRls(Uid(t), r)}
       IN  IF fail
           THEN /\ Return(t, [c EXCEPT !.netfail = TRUE], "network")
                /\ UNCHANGED <<storeVars, cartItems>>
           ELSE /\ cart_items' = cart_items \ hit
                /\ Goto(t, "load", c)
                /\ UNCHANGED <<auxVars, user, products, orders, order_items, nextCartId,
                               nextOrderId, cartItems>>

\* loadCartItems(): the select and setCartItems(data || []); an error is
\* logged, not raised
StoreLoad(t) ==
  /\ pc[t] = "load"
  /\ \E fail \in BOOLEAN :
       LET c == call[t]
       IN  IF c.user = NoUser
           THEN Return(t, c, "none") /\ UNCHANGED cartItems
           ELSE IF fail
           THEN Return(t, [c EXCEPT !.netfail = TRUE], "none") /\ UNCHANGED cartItems
           ELSE /\ cartItems' = [cartItems EXCEPT ![c.ctx] = SelectCart(Uid(t), c.user)]
                /\ Return(t, c, "none")
  /\ UNCHANGED storeVars

\* delete().eq('user_id', user.id) on cart_items and setCartItems([]), from
\* clearCart; an error is raised
StoreClearCart(t) ==
  /\ pc[t] = "clear"
  /\ \E fail \in BOOLEAN :
       LET c == call[t]
       IN  IF fail
           THEN /\ Return(t, [c EXCEPT !.netfail = TRUE], "network")
                /\ UNCHANGED <<storeVars, cartItems>>
           ELSE /\ cart_items' = cart_items \ CartRowsOfUser(Uid(t), c.user)
                /\ cartItems' = [cartItems EXCEPT ![c.ctx] = {}]
                /\ Return(t, c, "none")
                /\ UNCHANGED <<auxVars, user, products, orders, order_items, nextCartId,
                               nextOrderId>>

\* --------------------------------------------- OrderService / CheckoutPage
OrderCall(op, c, a) ==
  [NewCall(op, c, NoProduct, 0)
     EXCEPT !.cartItems = cartItems[c],
            !.address = a,
            !.nItems = Cardinality(cartItems[c]),
            !.pricesAtCall = [p \in Products |-> products[p].price]]

\* createOrder reading item.products?.price || 0, so that a line whose product
\* came back null counts 0 and the call goes on to its requests
CreateOrderLenient(t, c, a) ==
  /\ pc[t] = "idle"
  /\ user[c] # NoUser
  /\ Begin(t, "co_order", OrderCall("createOrder", c, a))
  /\ UNCHANGED <<storeVars, cartItems>>

\* OrderService.createOrder(user.id, cartItems, shippingAddress), up to its first await
\* reading item.products.price of a line whose product came back null throws
CreateOrder(t, c, a) ==
  /\ pc[t] = "idle"
  /\ user[c] # NoUser
  /\ IF \E x \in cartItems[c] : x.products.isNull
     THEN BeginEnd(t, OrderCall("createOrder", c, a), "TypeError")
     ELSE Begin(t, "co_order", OrderCall("createOrder", c, a))
  /\ UNCHANGED <<storeVars, cartItems>>

\* CheckoutPage.handleSubmit: the form is rendered only for a non-empty
\* cartItems, and submits only with its required inputs filled in (country is
\* a select with a value)
HandleSubmit(t, c, a) ==
  /\ pc[t] = "idle"
  /\ cartItems[c] # {}
  /\ AddressComplete(a)
  /\ IF user[c] = NoUser
     THEN BeginEnd(t, NewCall("handleSubmit", c, NoProduct, 0), "none")
     ELSE IF \E x \in cartItems[c] : x.products.isNull
     THEN BeginEnd(t, OrderCall("handleSubmit", c, a), "TypeError")
     ELSE Begin(t, "co_order", OrderCall("handleSubmit", c, a))
  /\ UNCHANGED <<storeVars, cartItems>>

\* the order insert refusing a line whose quantity exceeds the stock
StoreInsertOrderChecking(t) ==
  /\ pc[t] = "co_order"
  /\ \E fail \in BOOLEAN :
       LET c == call[t]
       IN  IF fail
           THEN /\ Return(t, [c EXCEPT !.netfail = TRUE], "network")
                /\ UNCHANGED storeVars
           ELSE IF \E x \in c.cartItems : x.quantity > stock_quantity[x.product_id]
           THEN /\ Return(t, c, "stock")
                /\ UNCHANGED storeVars
           ELSE IF ~OrderTotalCheck(TotalAmount(c.cartItems))
           THEN /\ Return(t, c, "check")
                /\ UNCHANGED storeVars
           ELSE /\ nextOrderId <= orderCap
                /\ orders' = orders \cup
                     {[id |-> nextOrderId, user_id |-> c.user,
                       total_amount |-> TotalAmount(c.cartItems), status |-> InitialStatus,
                       shipping_address |-> c.address]}
                /\ nextOrderId' = nextOrderId + 1
                /\ Goto(t, "co_items", [c EXCEPT !.orderId = nextOrderId])
                /\ UNCHANGED <<auxVars, user, products, cart_items, order_items, nextCartId>>
  /\ UNCHANGED cartItems

\* insert([{user_id, total_amount, status: 'pending', ...}]).select().single()
StoreInsertOrder(t) ==
  /\ pc[t] = "co_order"
  /\ \E fail \in BOOLEAN :
       LET c == call[t]
       IN  IF fail
           THEN /\ Return(t, [c EXCEPT !.netfail = TRUE], "network")
                /\ UNCHANGED storeVars
           ELSE IF ~OrderTotalCheck(TotalAmount(c.cartItems))
           THEN /\ Return(t, c, "check")
                /\ UNCHANGED storeVars
           ELSE /\ nextOrderId <= orderCap
                /\ orders' = orders \cup
                     {[id |-> nextOrderId, user_id |-> c.user,
                       total_amount |-> TotalAmount(c.cartItems), status |-> InitialStatus,
                       shipping_address |-> c.address]}
                /\ nextOrderId' = nextOrderId + 1
                /\ Goto(t, "co_items", [c EXCEPT !.orderId = nextOrderId])
                /\ UNCHANGED <<auxVars, user, products, cart_items, order_items, nextCartId>>
  /\ UNCHANGED cartItems

\* the order_items insert with its error logged instead of raised
StoreInsertOrderItemsSwallowing(t) ==
  /\ pc[t] = "co_items"
  /\ \E fail \in BOOLEAN :
       LET c == call[t]
           orderItems == OrderItemsOf(c.cartItems, c.orderId)
       IN  IF fail \/ \E oi \in orderItems : ~OrderItemCheck(oi)
           THEN /\ Goto(t, "co_cart", [c EXCEPT !.netfail = fail])
                /\ UNCHANGED storeVars
           ELSE /\ order_items' = order_items \cup orderItems
                /\ Goto(t, "co_cart", c)
                /\ UNCHANGED <<auxVars, user, products, cart_items, orders, nextCartId, nextOrderId>>
  /\ UNCHANGED cartItems

\* the order_items insert with a compensating delete of the order on failure
StoreInsertOrderItemsUndoing(t) ==
  /\ pc[t] = "co_items"
  /\ \E fail \in BOOLEAN :
       LET c == call[t]
           orderItems == OrderItemsOf(c.cartItems, c.orderId)
       IN  IF fail \/ \E oi \in orderItems : ~OrderItemCheck(oi)
           THEN /\ Return(t, [c EXCEPT !.netfail = fail], IF fail THEN "network" ELSE "check")
                /\ orders' = {o \in orders : o.id # c.orderId}
                /\ UNCHANGED <<auxVars, user, products, cart_items, order_items,
                               nextCartId, nextOrderId>>
           ELSE /\ order_items' = order_items \cup orderItems
                /\ Goto(t, "co_cart", c)
                /\ UNCHANGED <<auxVars, user, products, cart_items, orders, nextCartId, nextOrderId>>
  /\ UNCHANGED cartItems

\* insert(orderItems) into order_items
StoreInsertOrderItems(t) ==
  /\ pc[t] = "co_items"
  /\ \E fail \in BOOLEAN :
       LET c == call[t]
           orderItems == OrderItemsOf(c.cartItems, c.orderId)
       IN  IF fail
           THEN /\ Return(t, [c EXCEPT !.netfail = TRUE], "network")
                /\ UNCHANGED storeVars
           ELSE IF \E oi \in orderItems : ~OrderItemCheck(oi)
           THEN /\ Return(t, c, "check")
                /\ UNCHANGED storeVars
           ELSE /\ order_items' = order_items \cup orderItems
                /\ Goto(t, "co_cart", c)
                /\ UNCHANGED <<auxVars, user, products, cart_items, orders, nextCartId, nextOrderId>>
  /\ UNCHANGED cartItems

\* the cart deletion with `throw cartError` in place of the console.error
StoreDeleteOrderedCartRaising(t) ==
  /\ pc[t] = "co_cart"
  /\ \E fail \in BOOLEAN :
       LET c == call[t]
       IN  /\ cart_items' = IF fail THEN cart_items
                            ELSE cart_items \ CartRowsOfUser(Uid(t), c.user)
           /\ IF fail
              THEN Return(t, [c EXCEPT !.netfail = TRUE, !.orderId = NoId], "network")
              ELSE IF c.op = "handleSubmit"
              THEN Goto(t, "clear", c)
              ELSE Return(t, c, "none")
  /\ UNCHANGED <<auxVars, user, products, orders, order_items, nextCartId, nextOrderId, cartItems>>

\* delete().eq('user_id', userId) on cart_items; an error is logged, not raised;
\* createOrder returns order.id, and handleSubmit goes on to clearCart()
StoreDeleteOrderedCart(t) ==
  /\ pc[t] = "co_cart"
  /\ \E fail \in BOOLEAN :
       LET c == call[t]
           d == IF fail THEN [c EXCEPT !.netfail = TRUE] ELSE c
       IN  /\ cart_items' = IF fail THEN cart_items
                            ELSE cart_items \ CartRowsOfUser(Uid(t), c.user)
           /\ IF c.op = "handleSubmit"
              THEN Goto(t, "clear", d)
              ELSE Return(t, d, "none")
  /\ UNCHANGED <<auxVars, user, products, orders, order_items, nextCartId, nextOrderId, cartItems>>

\* the caller takes the outcome: the UI handler's catch / finally block
Settle(t) ==
  /\ pc[t] = "done"
  /\ pc' = [pc EXCEPT ![t] = "idle"]
  /\ call' = [call EXCEPT ![t] = NoCall]
  /\ UNCHANGED <<storeVars, cartItems, mon>>

\* ------------------------------------------------------------ environment
\* the catalog admin changes products.price (CHECK (price > 0))
AdminSetPrice(p, v) ==
  /\ v # products[p].price
  /\ products' = [products EXCEPT ![p].price = v]
  /\ UNCHANGED <<user, cart_items, orders, order_items, nextCartId, nextOrderId,
                 cartItems, pc, call, auxVars, mon>>

\* OrderService.getOrderById(orderId), up to its await
GetOrderById(t, c, orderId) ==
  /\ pc[t] = "idle"
  /\ user[c] # NoUser
  /\ Begin(t, "go_select",
           [NewCall("getOrderById", c, NoProduct, 0) EXCEPT !.orderId = orderId])
  /\ UNCHANGED <<storeVars, cartItems>>

\* select(*, order_items(*, products(...))).eq('id', orderId).single(); an
\* error (no row included) is logged and null returned. result is the id of
\* the order returned, exposed the products embedded in its lines
StoreOrderSelect(t) ==
  /\ pc[t] = "go_select"
  /\ \E fail \in BOOLEAN :
       LET c == call[t]
           hit == {o \in orders : o.id = c.orderId /\ OrderRls(Uid(t), o)}
           lines == {oi \in order_items : oi.order_id \in {o.id : o \in hit}}
       IN  IF fail
           THEN Return(t, [c EXCEPT !.netfail = TRUE], "none")
           ELSE Return(t, [c EXCEPT !.result = {o.id : o \in hit},
                                    !.exposed = {oi.product_id : oi \in
                                                   {x \in lines : ProductVisible(x.product_id)}}],
                       "none")
  /\ UNCHANGED <<storeVars, cartItems>>

\* OrderService.getUserOrders(user.id), up to its await
GetUserOrders(t, c) ==
  /\ pc[t] = "idle"
  /\ user[c] # NoUser
  /\ Begin(t, "uo_select", NewCall("getUserOrders", c, NoProduct, 0))
  /\ UNCHANGED <<storeVars, cartItems>>

\* select(*, order_items(*, products(...))).eq('user_id', userId); an error is
\* raised
StoreOrdersSelect(t) ==
  /\ pc[t] = "uo_select"
  /\ \E fail \in BOOLEAN :
       LET c == call[t]
           hit == {o \in orders : o.user_id = c.user /\ OrderRls(Uid(t), o)}
           lines == {oi \in order_items : oi.order_id \in {o.id : o \in hit}}
       IN  IF fail
           THEN Return(t, [c EXCEPT !.netfail = TRUE], "network")
           ELSE Return(t, [c EXCEPT !.result = {o.id : o \in hit},
                                    !.exposed = {oi.product_id : oi \in
                                                   {x \in lines : ProductVisible(x.product_id)}}],
                       "none")
  /\ UNCHANGED <<storeVars, cartItems>>

\* ------------------------------------------------------- ProductService
\* getProducts(filters), up to its await
GetProducts(t, c, f) ==
  /\ pc[t] = "idle"
  /\ Begin(t, "ps_select", [NewCall("getProducts", c, NoProduct, 0) EXCEPT !.filters = f])
  /\ UNCHANGED <<storeVars, cartItems>>

\* the products select of getProducts; an error is raised
StoreProductsSelect(t) ==
  /\ pc[t] = "ps_select"
  /\ \E fail \in BOOLEAN :
       LET c == call[t]
       IN  IF fail
           THEN Return(t, [c EXCEPT !.netfail = TRUE], "network")
           ELSE Return(t, [c EXCEPT !.result = ProductsQuery(c.filters),
                                    !.exposed = ProductsQuery(c.filters)], "none")
  /\ UNCHANGED <<storeVars, cartItems>>

\* getProductById(id), up to its await
GetProductById(t, c, productId) ==
  /\ pc[t] = "idle"
  /\ Begin(t, "p_select", NewCall("getProductById", c, productId, 0))
  /\ UNCHANGED <<storeVars, cartItems>>

\* select.eq('id', id).eq('is_active', true).single(); an error (no row
\* included) is logged and null returned
StoreProductSelect(t) ==
  /\ pc[t] = "p_select"
  /\ \E fail \in BOOLEAN :
       LET c == call[t]
           hit == {p \in {c.productId} : ProductVisible(p) /\ is_active[p]}
       IN  IF fail
           THEN Return(t, [c EXCEPT !.netfail = TRUE], "none")
           ELSE Return(t, [c EXCEPT !.result = hit, !.exposed = hit], "none")
  /\ UNCHANGED <<storeVars, cartItems>>

\* getFeaturedProducts(limit), up to its await
GetFeaturedProducts(t, c, limit) ==
  /\ pc[t] = "idle"
  /\ Begin(t, "f_select", NewCall("getFeaturedProducts", c, NoProduct, limit))
  /\ UNCHANGED <<storeVars, cartItems>>

\* select.eq('is_active', true).order('created_at').limit(limit): the seeded
\* products share created_at, so any limit of the active rows may come back
StoreFeaturedSelect(t) ==
  /\ pc[t] = "f_select"
  /\ \E fail \in BOOLEAN :
       LET c == call[t]
           act == {p \in Products : ProductVisible(p) /\ is_active[p]}
           n == IF Cardinality(act) < c.argQty THEN Cardinality(act) ELSE c.argQty
       IN  IF fail
           THEN Return(t, [c EXCEPT !.netfail = TRUE], "network")
           ELSE \E r \in SUBSET act :
                  /\ Cardinality(r) = n
                  /\ Return(t, [c EXCEPT !.result = r, !.exposed = r], "none")
  /\ UNCHANGED <<storeVars, cartItems>>

\* ------------------------------------------ WishlistService / UserService
\* WishlistService.getWishlistItems(user.id), up to its await
GetWishlistItems(t, c) ==
  /\ pc[t] = "idle"
  /\ user[c] # NoUser
  /\ Begin(t, "wl_select", NewCall("getWishlistItems", c, NoProduct, 0))
  /\ UNCHANGED <<storeVars, cartItems>>

\* select(*, products(...)).eq('user_id', userId) on wishlist_items; an error
\* is raised. result is the products of the rows, exposed those embedded
StoreWishSelect(t) ==
  /\ pc[t] = "wl_select"
  /\ \E fail \in BOOLEAN :
       LET c == call[t]
           hit == {p \in Products : wishlist_items[<<c.user, p>>] > 0}
       IN  IF fail
           THEN Return(t, [c EXCEPT !.netfail = TRUE], "network")
           ELSE Return(t, [c EXCEPT !.result = hit,
                                    !.exposed = {p \in hit : ProductVisible(p)}], "none")
  /\ UNCHANGED <<storeVars, cartItems>>

\* WishlistService.addToWishlist(user.id, productId), up to its await
AddToWishlist(t, c, productId) ==
  /\ pc[t] = "idle"
  /\ user[c] # NoUser
  /\ Begin(t, "wl_insert", NewCall("addToWishlist", c, productId, 0))
  /\ UNCHANGED <<storeVars, cartItems>>

\* WishlistService.removeFromWishlist(user.id, productId), up to its await
RemoveFromWishlist(t, c, productId) ==
  /\ pc[t] = "idle"
  /\ user[c] # NoUser
  /\ Begin(t, "wl_delete", NewCall("removeFromWishlist", c, productId, 0))
  /\ UNCHANGED <<storeVars, cartItems>>

\* insert([{user_id, product_id}]) into wishlist_items; an error is raised
StoreWishInsert(t) ==
  /\ pc[t] = "wl_insert"
  /\ \E fail \in BOOLEAN :
       LET c == call[t]
           k == <<c.user, c.productId>>
       IN  IF fail
           THEN /\ Return(t, [c EXCEPT !.netfail = TRUE], "network")
                /\ UNCHANGED wishlist_items
           ELSE IF ~WishUniqueOk(wishlist_items[k])
           THEN /\ Return(t, c, "unique")
                /\ UNCHANGED wishlist_items
           ELSE /\ wishlist_items' = [wishlist_items EXCEPT ![k] = @ + 1]
                /\ Return(t, c, "none")
  /\ UNCHANGED <<shopVars, settingVars, user_profiles>>

\* delete().eq('user_id', userId).eq('product_id', productId) on
\* wishlist_items; result records the pairs the delete matched
StoreWishDelete(t) ==
  /\ pc[t] = "wl_delete"
  /\ \E fail \in BOOLEAN :
       LET c == call[t]
           k == <<c.user, c.productId>>
       IN  IF fail
           THEN /\ Return(t, [c EXCEPT !.netfail = TRUE], "network")
                /\ UNCHANGED wishlist_items
           ELSE /\ wishlist_items' = [wishlist_items EXCEPT ![k] = 0]
                /\ Return(t, [c EXCEPT !.result = IF wishlist_items[k] = 0 THEN {} ELSE {k}],
                          DeleteOutcome(wishlist_items[k]))
  /\ UNCHANGED <<shopVars, settingVars, user_profiles>>

\* UserService.getProfile(user.id), up to its first await
GetProfile(t, c) ==
  /\ pc[t] = "idle"
  /\ user[c] # NoUser
  /\ Begin(t, "gp_select", NewCall("getProfile", c, NoProduct, 0))
  /\ UNCHANGED <<storeVars, cartItems>>

\* select('*').eq('id', userId).single(): PGRST116 (not exactly one row) leads
\* to createProfile, any other error to null; result is the value returned
StoreProfileSelect(t) ==
  /\ pc[t] = "gp_select"
  /\ \E fail \in BOOLEAN :
       LET c == call[t]
       IN  IF fail
           THEN Return(t, [c EXCEPT !.netfail = TRUE], "none")
           ELSE IF user_profiles[c.user] = 1
           THEN Return(t, [c EXCEPT !.result = {c.user}], "none")
           ELSE Goto(t, "gp_insert", c)
  /\ UNCHANGED <<shopVars, settingVars, wishlist_items, user_profiles>>

\* createProfile: insert([{id: userId}]).select().single(); an error is
\* logged and null returned
StoreProfileInsert(t) ==
  /\ pc[t] = "gp_insert"
  /\ \E fail \in BOOLEAN :
       LET c == call[t]
       IN  IF fail
           THEN /\ Return(t, [c EXCEPT !.netfail = TRUE], "none")
                /\ UNCHANGED user_profiles
           ELSE IF ~ProfilePkOk(user_profiles[c.user])
           THEN /\ Return(t, c, "none")
                /\ UNCHANGED user_profiles
           ELSE /\ user_profiles' = [user_profiles EXCEPT ![c.user] = @ + 1]
                /\ Return(t, [c EXCEPT !.result = {c.user}], "none")
  /\ UNCHANGED <<shopVars, settingVars, wishlist_items>>

\* the store answering a wishlist or profile request
AccountSteps ==
  \/ \E t \in Tasks : StoreWishInsert(t)
  \/ \E t \in Tasks : StoreWishDelete(t)
  \/ \E t \in Tasks : StoreProfileSelect(t)
  \/ \E t \in Tasks : StoreProfileInsert(t)

\* the catalog admin activates or retires a product
AdminSetActive(p, b) ==
  /\ b # is_active[p]
  /\ is_active' = [is_active EXCEPT ![p] = b]
  /\ UNCHANGED <<shopVars, hist, rlsOn, catalog, wishlist_items, user_profiles,
                 stock_quantity, orderCap, pc, call, mon>>

\* the store answering a read of products or of rows that embed products
ReadSteps(T) ==
  \/ \E t \in T : StoreProductsSelect(t)
  \/ \E t \in T : StoreProductSelect(t)
  \/ \E t \in T : StoreFeaturedSelect(t)
  \/ \E t \in T : StoreWishSelect(t)
  \/ \E t \in T : StoreOrdersSelect(t)
  \/ \E t \in T : StoreOrderSelect(t)

\* order fulfilment, outside the application, sets orders.status; the store
\* refuses a value its CHECK does not list
AdminSetStatus(id, status) ==
  /\ \E o \in orders : o.id = id /\ o.status # status
  /\ orders' = IF OrderStatusCheck(status)
               THEN {IF o.id = id THEN [o EXCEPT !.status = status] ELSE o : o \in orders}
               ELSE orders
  /\ UNCHANGED <<user, products, cart_items, order_items, nextCartId, nextOrderId,
                 cartItems, pc, call, auxVars, mon>>

\* ---------------------------------------------------------- specifications
\* the store executes the pending cart request of a task of T
CartSteps(T) ==
  \/ \E t \in T : StoreInsertCart(t)
  \/ \E t \in T : StoreUpdateCart(t)
  \/ \E t \in T : StoreDeleteCart(t)
  \/ \E t \in T : StoreLoad(t)
  \/ \E t \in T : StoreClearCart(t)

\* the store executes the pending createOrder request of a task of T
OrderSteps(T) ==
  \/ \E t \in T : StoreInsertOrder(t)
  \/ \E t \in T : StoreInsertOrderItems(t)
  \/ \E t \in T : StoreDeleteOrderedCart(t)

\* a cart operation is called in a context of C, on a product of P, with a quantity of Q
CartCalls(T, C, P, Q) ==
  \/ \E t \in T, c \in C, p \in P, q \in Q : AddToCart(t, c, p, q)
  \/ \E t \in T, c \in C, i \in CartIds, q \in Q : UpdateCartItem(t, c, i, q)
  \/ \E t \in T, c \in C, i \in CartIds : RemoveFromCart(t, c, i)
  \/ \E t \in T, c \in C : ClearCart(t, c)
  \/ \E t \in T, c \in C : Mount(t, c)

Next ==
  \/ CartCalls(Tasks, Ctxs, Products, InputQtys)
  \/ \E t \in Tasks, c \in Ctxs, a \in Addresses : CreateOrder(t, c, a)
  \/ \E t \in Tasks, c \in Ctxs, a \in Addresses : HandleSubmit(t, c, a)
  \/ CartSteps(Tasks)
  \/ OrderSteps(Tasks)
  \/ \E t \in Tasks : Settle(t)
  \/ \E c \in Ctxs : SignOut(c)
  \/ \E t \in Tasks, c \in Ctxs, u \in Users : SignIn(t, c, u)
  \/ \E p \in Products, v \in Prices : AdminSetPrice(p, v)
  \/ \E id \in OrderIds, st \in OrderStatuses : AdminSetStatus(id, st)
  \/ \E t \in Tasks, c \in Ctxs, p \in Products : AddToWishlist(t, c, p)
  \/ \E t \in Tasks, c \in Ctxs, p \in Products : RemoveFromWishlist(t, c, p)
  \/ \E t \in Tasks, c \in Ctxs : GetProfile(t, c)
  \/ AccountSteps
  \/ \E t \in Tasks, c \in Ctxs, i \in CartIds, q \in InputQtys : UpdateCartItemAny(t, c, i, q)
  \/ \E t \in Tasks, c \in Ctxs, i \in CartIds : RemoveFromCartAny(t, c, i)
  \/ \E t \in Tasks, c \in Ctxs, id \in OrderIds : GetOrderById(t, c, id)
  \/ \E t \in Tasks, c \in Ctxs : GetUserOrders(t, c)
  \/ \E t \in Tasks, c \in Ctxs : GetWishlistItems(t, c)
  \/ \E t \in Tasks, c \in Ctxs, f \in FilterInputs : GetProducts(t, c, f)
  \/ \E t \in Tasks, c \in Ctxs, p \in Products : GetProductById(t, c, p)
  \/ \E t \in Tasks, c \in Ctxs, l \in Limits : GetFeaturedProducts(t, c, l)
  \/ ReadSteps(Tasks)
  \/ \E p \in Products, b \in BOOLEAN : AdminSetActive(p, b)

\* every interleaving of every handler in both tabs
Spec == hist = FALSE /\ Init /\ [][Next]_vars

\* One tab of user u1, two handlers in flight at a time on product p1: task
\* t1 runs every cart operation and createOrder while task t2 keeps calling
\* addToCart, whose quantities take it down the insert, the update and the
\* delete path; prices stay as listed.
InitCart ==
  /\ Plain
  /\ hist = FALSE
  /\ Init
  /\ \A c \in Ctxs : user[c] = "u1"
  /\ \A p \in Products : products[p].price = 1

NextCart ==
  \/ \E t \in Tasks, q \in InputQtys : AddToCart(t, "c1", "p1", q)
  \/ \E i \in CartIds, q \in InputQtys : UpdateCartItem("t1", "c1", i, q)
  \/ \E i \in CartIds : RemoveFromCart("t1", "c1", i)
  \/ ClearCart("t1", "c1")
  \/ CreateOrder("t1", "c1", FullAddress)
  \/ CartSteps(Tasks)
  \/ OrderSteps(Tasks)
  \/ \E t \in Tasks : Settle(t)

SpecCart == InitCart /\ [][NextCart]_vars

\* Checkout: task t1 places orders (the service call, or the checkout form's
\* submit handler) while task t2 keeps adding to the same user's cart and the
\* admin reprices the products.
InitOrder ==
  /\ Plain
  /\ hist = FALSE
  /\ Init
  /\ \A c \in Ctxs : user[c] = "u1"

NextOrder ==
  \/ \E p \in Products : AddToCart("t2", "c1", p, 1)
  \/ CreateOrder("t1", "c1", FullAddress)
  \/ HandleSubmit("t1", "c1", FullAddress)
  \/ \E t \in Tasks : StoreInsertCart(t)
  \/ \E t \in Tasks : StoreUpdateCart(t)
  \/ \E t \in Tasks : StoreLoad(t)
  \/ \E t \in Tasks : StoreClearCart(t)
  \/ OrderSteps(Tasks)
  \/ \E t \in Tasks : Settle(t)
  \/ \E p \in Products, v \in Prices : AdminSetPrice(p, v)

SpecOrder == InitOrder /\ [][NextOrder]_vars

\* Checkout, one handler at a time: the user fills the cart, places orders
\* (the service call, or the checkout form's submit handler), and the admin
\* reprices product p1 in between.
InitCheckout ==
  /\ InitOrder
  /\ products["p2"].price = 1

NextCheckout ==
  \/ \E p \in Products : AddToCart("t1", "c1", p, 1)
  \/ CreateOrder("t1", "c1", FullAddress)
  \/ HandleSubmit("t1", "c1", FullAddress)
  \/ StoreInsertCart("t1")
  \/ StoreUpdateCart("t1")
  \/ StoreLoad("t1")
  \/ StoreClearCart("t1")
  \/ OrderSteps({"t1"})
  \/ Settle("t1")
  \/ \E v \in Prices : AdminSetPrice("p1", v)

SpecCheckout == InitCheckout /\ [][NextCheckout]_vars

\* The order service called directly, with any of the sample addresses, and
\* the checkout form, one call at a time on product p1.
NextService ==
  \/ AddToCart("t1", "c1", "p1", 1)
  \/ \E a \in Addresses : CreateOrder("t1", "c1", a)
  \/ \E a \in Addresses : HandleSubmit("t1", "c1", a)
  \/ StoreInsertCart("t1")
  \/ StoreUpdateCart("t1")
  \/ StoreLoad("t1")
  \/ StoreClearCart("t1")
  \/ OrderSteps({"t1"})
  \/ Settle("t1")

SpecService == InitCart /\ [][NextService]_vars

\* Orders placed one at a time on product p1 while fulfilment asks the store
\* for status changes, one value outside the five included.
StatusInputs == OrderStatuses \cup {"refunded"}

NextFulfil ==
  \/ AddToCart("t1", "c1", "p1", 1)
  \/ CreateOrder("t1", "c1", FullAddress)
  \/ HandleSubmit("t1", "c1", FullAddress)
  \/ StoreInsertCart("t1")
  \/ StoreUpdateCart("t1")
  \/ StoreLoad("t1")
  \/ StoreClearCart("t1")
  \/ OrderSteps({"t1"})
  \/ Settle("t1")
  \/ \E id \in OrderIds, st \in StatusInputs : AdminSetStatus(id, st)

SpecFulfil == InitCart /\ [][NextFulfil]_vars

\* Wishlist and profile: two calls in flight at a time, from two tabs of the
\* same user or of two users.
InitAccount ==
  /\ Plain
  /\ hist = FALSE
  /\ Init
  /\ \A p \in Products : products[p].price = 1

NextAccount ==
  \/ \E t \in Tasks, c \in Ctxs, p \in Products : AddToWishlist(t, c, p)
  \/ \E t \in Tasks, c \in Ctxs, p \in Products : RemoveFromWishlist(t, c, p)
  \/ \E t \in Tasks, c \in Ctxs : GetProfile(t, c)
  \/ AccountSteps
  \/ \E t \in Tasks : Settle(t)

SpecAccount == InitAccount /\ [][NextAccount]_vars

\* Two users, one tab each, one call at a time on product p1, the store's
\* access rules enforced or disabled; update, remove and the order read are
\* called with any id.
InitOwner ==
  /\ stock_quantity = SeedStock
  /\ orderCap = MaxOrders
  /\ is_active = [p \in Products |-> TRUE]
  /\ catalog = SeedCatalog
  /\ hist = FALSE
  /\ Init
  /\ user = [c \in Ctxs |-> IF c = "c1" THEN "u1" ELSE "u2"]
  /\ \A p \in Products : products[p].price = 1

NextOwner ==
  \/ \E c \in Ctxs : AddToCart("t1", c, "p1", 1)
  \/ \E c \in Ctxs, i \in CartIds, q \in 0..MaxLineQty : UpdateCartItemAny("t1", c, i, q)
  \/ \E c \in Ctxs, i \in CartIds : RemoveFromCartAny("t1", c, i)
  \/ \E c \in Ctxs : CreateOrder("t1", c, FullAddress)
  \/ \E c \in Ctxs, id \in OrderIds : GetOrderById("t1", c, id)
  \/ StoreInsertCart("t1")
  \/ StoreUpdateCart("t1")
  \/ StoreDeleteCart("t1")
  \/ StoreLoad("t1")
  \/ OrderSteps({"t1"})
  \/ StoreOrderSelect("t1")
  \/ Settle("t1")

SpecOwner == InitOwner /\ [][NextOwner]_vars

\* One tab of user u1, one call at a time, the policies enforced, while the
\* catalog admin retires and reactivates products: every read of products and
\* of rows that embed products, the cart, wishlist and orders holding p1.
InitActive ==
  /\ stock_quantity = SeedStock
  /\ orderCap = MaxOrders
  /\ rlsOn = TRUE
  /\ catalog = SeedCatalog
  /\ hist = FALSE
  /\ Init
  /\ user["c2"] = "u1"
  /\ \A p \in Products : products[p].price = 1

NextActive ==
  \/ AddToCart("t1", "c1", "p1", 1)
  \/ AddToWishlist("t1", "c1", "p1")
  \/ CreateOrder("t1", "c1", FullAddress)
  \/ GetUserOrders("t1", "c1")
  \/ \E id \in OrderIds : GetOrderById("t1", "c1", id)
  \/ GetWishlistItems("t1", "c1")
  \/ GetProducts("t1", "c1", NoFilters)
  \/ \E p \in Products : GetProductById("t1", "c1", p)
  \/ \E l \in Limits : GetFeaturedProducts("t1", "c1", l)
  \/ StoreInsertCart("t1")
  \/ StoreUpdateCart("t1")
  \/ StoreLoad("t1")
  \/ StoreWishInsert("t1")
  \/ OrderSteps({"t1"})
  \/ ReadSteps({"t1"})
  \/ Settle("t1")
  \/ \E p \in Products, b \in BOOLEAN : AdminSetActive(p, b)

SpecActive == InitActive /\ [][NextActive]_vars

\* getProducts(filters) over catalogs that differ in the name, category, price
\* and is_active of product p1.
InitCatalog ==
  /\ stock_quantity = SeedStock
  /\ orderCap = MaxOrders
  /\ rlsOn = TRUE
  /\ hist = FALSE
  /\ catalog \in {[SeedCatalog EXCEPT !["p1"].name = n, !["p1"].category_id = k] :
                     n \in Texts, k \in Categories}
  /\ Init
  /\ user["c2"] = "u1"
  /\ is_active["p2"]
  /\ products["p2"].price = 1

NextCatalog ==
  \/ \E f \in FilterInputs : GetProducts("t1", "c1", f)
  \/ StoreProductsSelect("t1")
  \/ Settle("t1")

SpecCatalog == InitCatalog /\ [][NextCatalog]_vars

\* One tab of user u1, one call at a time on both products, whose stock is 0
\* or 1: lines are added and set to any quantity up to the bound.
InitStock ==
  /\ rlsOn = TRUE
  /\ orderCap = MaxOrders
  /\ is_active = [p \in Products |-> TRUE]
  /\ catalog = SeedCatalog
  /\ hist = FALSE
  /\ Init
  /\ \A c \in Ctxs : user[c] = "u1"
  /\ \A p \in Products : products[p].price = 1

NextStock ==
  \/ \E p \in Products : AddToCart("t1", "c1", p, 1)
  \/ \E i \in CartIds, q \in 1..MaxLineQty : UpdateCartItem("t1", "c1", i, q)
  \/ StoreInsertCart("t1")
  \/ StoreUpdateCart("t1")
  \/ StoreLoad("t1")
  \/ Settle("t1")

SpecStock == InitStock /\ [][NextStock]_vars

\* One tab of user u1, one call at a time: the cart is filled with both
\* products, priced 1 and 2, and ordered, while the catalog admin retires and
\* reactivates product p1.
InitTotals ==
  /\ rlsOn = TRUE
  /\ stock_quantity = SeedStock
  /\ orderCap = MaxOrders
  /\ catalog = SeedCatalog
  /\ hist = FALSE
  /\ products = [p \in Products |-> [price |-> IF p = "p1" THEN 1 ELSE 2]]
  /\ Init
  /\ \A c \in Ctxs : user[c] = "u1"
  /\ is_active["p2"]

NextTotals ==
  \/ \E p \in Products : AddToCart("t1", "c1", p, 1)
  \/ CreateOrder("t1", "c1", FullAddress)
  \/ StoreInsertCart("t1")
  \/ StoreUpdateCart("t1")
  \/ StoreLoad("t1")
  \/ OrderSteps({"t1"})
  \/ Settle("t1")
  \/ \E b \in BOOLEAN : AdminSetActive("p1", b)

SpecTotals == InitTotals /\ [][NextTotals]_vars

\* One handler at a time (the UI disables its controls while a call runs), in
\* either tab, with the history of addToCart calls recorded.
InitHist ==
  /\ Plain
  /\ hist = TRUE
  /\ Init
  /\ \A p \in Products : products[p].price = 1

NextHist ==
  \/ CartCalls({"t1"}, Ctxs, Products, InputQtys)
  \/ CartSteps({"t1"})
  \/ Settle("t1")

SpecHist == InitHist /\ [][NextHist]_vars

\* One tab of user u1 whose product card is clicked while an earlier click's
\* addToCart is still running (ProductCard.handleAddToCart disables nothing):
\* two handlers add product p1, one unit a click, with the history recorded.
InitRace ==
  /\ Plain
  /\ hist = TRUE
  /\ Init
  /\ \A c \in Ctxs : user[c] = "u1"
  /\ \A p \in Products : products[p].price = 1

NextRace ==
  \/ \E t \in Tasks : AddToCart(t, "c1", "p1", 1)
  \/ \E t \in Tasks : StoreInsertCart(t)
  \/ \E t \in Tasks : StoreUpdateCart(t)
  \/ \E t \in Tasks : StoreLoad(t)
  \/ \E t \in Tasks : Settle(t)

SpecRace == InitRace /\ [][NextRace]_vars

\* One tab whose user signs out and in while its cart handlers run: task t1
\* adds product p1, task t2 runs the load of the sign-in effect.
InitSession ==
  /\ Plain
  /\ hist = FALSE
  /\ Init
  /\ \A c \in Ctxs : user[c] = "u1"
  /\ \A p \in Products : products[p].price = 1

NextSession ==
  \/ AddToCart("t1", "c1", "p1", 1)
  \/ SignOut("c1")
  \/ \E u \in Users : SignIn("t2", "c1", u)
  \/ \E t \in Tasks : StoreInsertCart(t)
  \/ \E t \in Tasks : StoreUpdateCart(t)
  \/ \E t \in Tasks : StoreLoad(t)
  \/ \E t \in Tasks : Settle(t)

SpecSession == InitSession /\ [][NextSession]_vars

\* The checkout page of one tab, one handler at a time (the submit button is
\* disabled while a submission runs): the user fills the cart and submits the
\* form, again if the page still shows lines; the store takes one order more
\* than elsewhere so that a repeated submission shows.
InitSubmit ==
  /\ rlsOn = TRUE
  /\ stock_quantity = SeedStock
  /\ orderCap = MaxOrders + 1
  /\ is_active = [p \in Products |-> TRUE]
  /\ catalog = SeedCatalog
  /\ hist = FALSE
  /\ Init
  /\ \A c \in Ctxs : user[c] = "u1"
  /\ \A p \in Products : products[p].price = 1

NextSubmit ==
  \/ \E p \in Products : AddToCart("t1", "c1", p, 1)
  \/ HandleSubmit("t1", "c1", FullAddress)
  \/ StoreInsertCart("t1")
  \/ StoreUpdateCart("t1")
  \/ StoreLoad("t1")
  \/ StoreClearCart("t1")
  \/ OrderSteps({"t1"})
  \/ Settle("t1")

SpecSubmit == InitSubmit /\ [][NextSubmit]_vars

\* ------------------------------------------------------------ properties
OrderPcs == {"co_order", "co_items", "co_cart"}

\* C1: for a cart with at least one line, createOrder produces an order whose
\* total_amount is the sum of quantity * product price at call time, and one
\* order line per cart line at that product's price at call time, also when
\* the price changed in the store after the cart context loaded its lines.
\* Stated where the order and its lines have been written (the call waits
\* on the cart deletion).
C1_OrderAtCallTimePrices ==
  \A t \in Tasks :
    (pc[t] = "co_cart" /\ call[t].nItems >= 1) =>
      LET c == call[t]
          atCall == {[x EXCEPT !.products = [price |-> c.pricesAtCall[x.product_id]]] :
                       x \in c.cartItems}
      IN  /\ \E o \in orders : o.id = c.orderId /\ o.total_amount = TotalAmount(atCall)
          /\ \A x \in c.cartItems :
               Cardinality({oi \in order_items :
                              /\ oi.order_id = c.orderId
                              /\ oi.product_id = x.product_id
                              /\ oi.quantity = x.quantity
                              /\ OrderLinePrice(oi) = c.pricesAtCall[x.product_id]}) = 1

\* C2: the three side effects of createOrder (order inserted, order lines
\* inserted, ordered cart lines deleted) appear atomic to a concurrent
\* reader: while a createOrder of a non-empty cart is in flight, the store
\* shows all three or none.
C2_OrderEffectsAtomic ==
  \A t \in Tasks :
    (pc[t] \in OrderPcs /\ call[t].nItems >= 1) =>
      LET c == call[t]
          orderSeen == \E o \in orders : o.id = c.orderId
          linesSeen == \E oi \in order_items : oi.order_id = c.orderId
          cartGone  == ~\E r \in cart_items : r.id \in {x.id : x \in c.cartItems}
      IN  (orderSeen <=> linesSeen) /\ (linesSeen <=> cartGone)

\* C3 (as amended): the cart deletion createOrder issues, when it does not
\* fail, leaves no cart line of that user in the store.
C3_DeletionEmptiesCart ==
  [][\A t \in Tasks :
       (pc[t] = "co_cart" /\ pc'[t] # "co_cart" /\ ~call'[t].netfail) =>
         ~\E r \in cart_items' : r.user_id = call[t].user]_vars

\* C3 (as claimed): after createOrder returned an order id for a user, the
\* store holds no cart line for that user.
C3_ReturnedOrderEmptiesCart ==
  [][\A t \in Tasks :
       (pc[t] = "co_cart" /\ pc'[t] = "done" /\ call'[t].err = "none"
          /\ call'[t].orderId # NoId) =>
         ~\E r \in cart_items' : r.user_id = call[t].user]_vars

\* a createOrder of a non-empty cart returned its order id, its cart deletion
\* did not fail, and the store holds no cart line of the user
C3_Witness ==
  \E t \in Tasks :
    /\ pc[t] = "done" /\ call[t].op = "createOrder" /\ call[t].err = "none"
    /\ call[t].orderId # NoId /\ call[t].nItems >= 1 /\ ~call[t].netfail
    /\ ~\E r \in cart_items : r.user_id = call[t].user

C5_NoOrderWithoutLines ==
  (\A t \in Tasks : pc[t] \notin OrderPcs) =>
    \A o \in orders : \E oi \in order_items : oi.order_id = o.id

\* C6: once an order was created, no later step (a product price change
\* included) removes one of its order lines or changes the price the line
\* shows.
C6_OrderLinePriceKept ==
  [][\A oi \in order_items :
       oi \in order_items' /\ OrderLinePrice(oi)' = OrderLinePrice(oi)]_vars

\* an order line whose product has since been repriced: the line still shows
\* another price than the catalog, and no order call is in flight
C6_Witness ==
  /\ \A t \in Tasks : pc[t] \notin OrderPcs
  /\ \E oi \in order_items : OrderLinePrice(oi) # products[oi.product_id].price

\* C7: addToCart(u, p, q1) followed, after it completed, by addToCart(u, p, q2),
\* q1, q2 >= 1, leaves exactly one cart line for (u, p) with quantity q1 + q2.
C7_SecondAddSums ==
  \A u \in Users :
    mon[u].stage = "done" =>
      /\ Cardinality({r \in cart_items : r.user_id = u /\ r.product_id = mon[u].p}) = 1
      /\ LineQty(u, mon[u].p) = mon[u].q1 + mon[u].q2

\* C8: in every reachable state of the store there is at most one cart line
\* per (user, product) and every cart line has quantity >= 1.
C8_CartWellFormed ==
  /\ \A r1, r2 \in cart_items :
       (r1.user_id = r2.user_id /\ r1.product_id = r2.product_id) => r1 = r2
  /\ \A r \in cart_items : r.quantity >= 1

\* the store refused a second line for a (user, product) that has one
C8_Witness ==
  \E t \in Tasks :
    /\ pc[t] = "done" /\ call[t].op = "addToCart" /\ call[t].err = "unique"
    /\ \E r \in cart_items : r.user_id = call[t].user

\* C9: addToCart with a quantity < 1 fails and leaves the cart unchanged: no
\* step of the call changes a cart line, and the call ends raising an error
\* (stated for any error, whatever its name).
C9_BadQuantityRejected ==
  [][\A t \in Tasks :
       (call[t].op = "addToCart" /\ call[t].argQty < 1 /\ pc[t] # "done"
          /\ pc'[t] # pc[t]) =>
         /\ cart_items' = cart_items
         /\ pc'[t] = "done" => call'[t].err # "none"]_vars

\* C10: updateCartItem(line, qty) with qty <= 0 issues no quantity update,
\* and once its delete went through no cart line with that id exists.
C10_NonPositiveRemoves ==
  \A t \in Tasks :
    (call[t].op = "updateCartItem" /\ call[t].argQty <= 0) =>
      /\ pc[t] # "update"
      /\ (pc[t] = "load" \/ (pc[t] = "done" /\ call[t].err = "none")) =>
           ~\E r \in cart_items : r.id = call[t].itemId

\* an updateCartItem with a non-positive quantity returned, its line is gone
C10_Witness ==
  \E t \in Tasks :
    /\ pc[t] = "done" /\ call[t].op = "updateCartItem" /\ call[t].argQty <= 0
    /\ call[t].err = "none" /\ ~call[t].netfail
    /\ call[t].itemId \in CartIds
    /\ ~\E r \in cart_items : r.id = call[t].itemId

\* C11: when the order and its lines were created and the cart deletion that
\* follows fails, createOrder raises no error and still returns the new
\* order's id, and the order and its lines remain in the store.
C11_CartDeleteFailureNotRaised ==
  [][\A t \in Tasks :
       (pc[t] = "co_cart" /\ pc'[t] # "co_cart" /\ cart_items' = cart_items
          /\ \E r \in cart_items : r.user_id = call[t].user) =>
         /\ call'[t].err = "none"
         /\ call'[t].orderId = call[t].orderId
         /\ \E o \in orders' : o.id = call[t].orderId /\ o.user_id = call[t].user
         /\ OrderItemsOf(call[t].cartItems, call[t].orderId) \subseteq order_items']_vars

\* a createOrder returned its order id although its cart deletion failed: the
\* order, its lines and the user's cart lines are all in the store
C11_Witness ==
  \E t \in Tasks :
    /\ pc[t] = "done" /\ call[t].op = "createOrder" /\ call[t].netfail
    /\ call[t].err = "none" /\ call[t].orderId # NoId
    /\ \E o \in orders : o.id = call[t].orderId
    /\ \E oi \in order_items : oi.order_id = call[t].orderId
    /\ \E r \in cart_items : r.user_id = call[t].user

\* C12: createOrder called with a shipping address in which a field is
\* missing or empty fails and mutates nothing: no order and no order line is
\* created and no cart line is deleted (stated for any error, whatever its
\* name).
C12_IncompleteAddressRejected ==
  [][\A t \in Tasks :
       (pc[t] = "co_order" /\ ~AddressComplete(call[t].address)
          /\ pc'[t] # "co_order") =>
         /\ pc'[t] = "done"
         /\ call'[t].err # "none"
         /\ orders' = orders
         /\ order_items' = order_items
         /\ cart_items' = cart_items]_vars

\* C15: every order createOrder creates has status 'pending', the status of
\* every order is one of the five values at all times, and no step of the
\* application (a step of a handler) changes the status of an order.
C15_StatusPendingAndKept ==
  [][/\ \A o \in orders' : o.status \in OrderStatuses
     /\ \A o \in orders' : (~\E x \in orders : x.id = o.id) => o.status = "pending"
     /\ (pc' # pc) =>
          \A o \in orders : \E n \in orders' : n.id = o.id /\ n.status = o.status]_vars

\* fulfilment moved an order on from 'pending' and no handler is running
C15_Witness ==
  /\ \E o \in orders : o.status \in OrderStatuses \ {"pending"}
  /\ \A t \in Tasks : pc[t] = "idle"

\* C17: orders and order lines are append-only: no step removes an order or
\* an order line, or changes an order's total_amount, user_id or
\* shipping_address, or any field of an order line.
C17_OrdersAppendOnly ==
  [][/\ \A o \in orders : \E n \in orders' :
          /\ n.id = o.id /\ n.user_id = o.user_id
          /\ n.total_amount = o.total_amount
          /\ n.shipping_address = o.shipping_address
     /\ order_items \subseteq order_items']_vars

\* an order without lines stays in the store after its createOrder failed on
\* the line insert, next to a cart that was filled again
C17_Witness ==
  /\ \A t \in Tasks : pc[t] = "idle"
  /\ \E o \in orders : ~\E oi \in order_items : oi.order_id = o.id
  /\ cart_items # {}

\* C13: addToWishlist(u, p) is idempotent on the store: no pair ever has two
\* wishlist entries, and after every addToWishlist whose request reached the
\* store, whatever outcome it reported, exactly one entry for (u, p) exists.
C13_WishlistAddIdempotent ==
  [][/\ \A k \in Users \X Products : wishlist_items'[k] <= 1
     /\ \A t \in Tasks :
          (pc[t] = "wl_insert" /\ pc'[t] = "done" /\ ~call'[t].netfail) =>
            wishlist_items'[<<call[t].user, call[t].productId>>] = 1]_vars

\* a second addToWishlist for a pair was refused and the pair has one entry
C13_Witness ==
  \E t \in Tasks :
    /\ pc[t] = "done" /\ call[t].op = "addToWishlist" /\ call[t].err = "unique"
    /\ wishlist_items[<<call[t].user, call[t].productId>>] = 1

\* C14: removeFromWishlist(u, p) when no entry for (u, p) exists is a no-op:
\* it raises no error (its request not failing) and leaves every wishlist
\* entry unchanged.
C14_RemoveAbsentIsNoOp ==
  [][\A t \in Tasks :
       (pc[t] = "wl_delete" /\ pc'[t] # "wl_delete"
          /\ wishlist_items[<<call[t].user, call[t].productId>>] = 0) =>
         /\ wishlist_items' = wishlist_items
         /\ ~call'[t].netfail => call'[t].err = "none"]_vars

\* a removeFromWishlist that matched no entry returned without error while
\* the user's other entry is in place
C14_Witness ==
  \E t \in Tasks :
    /\ pc[t] = "done" /\ call[t].op = "removeFromWishlist"
    /\ call[t].err = "none" /\ ~call[t].netfail /\ call[t].result = {}
    /\ \E p \in Products : wishlist_items[<<call[t].user, p>>] = 1

\* C20: getProfile returns the identity's profile, creating it when none
\* exists, also when two getProfile calls of the same identity interleave,
\* and there is at most one profile per identity (a call whose request failed
\* set aside).
C20_GetProfileReturnsProfile ==
  /\ \A u \in Users : user_profiles[u] <= 1
  /\ \A t \in Tasks :
       (pc[t] = "done" /\ call[t].op = "getProfile" /\ ~call[t].netfail) =>
         call[t].result = {call[t].user}

\* C16: the application filters by owner itself: whether or not the store
\* enforces its access rules, an updateCartItem or removeFromCart of one user
\* neither changes nor deletes a cart row of another user, and getOrderById
\* returns no order of another user.
C16_OwnershipFilteredByCore ==
  [][\A t \in Tasks :
       /\ (pc[t] \in {"update", "delete"}
             /\ call[t].op \in {"updateCartItem", "removeFromCart"}) =>
            \A r \in cart_items : r.user_id # call[t].user => r \in cart_items'
       /\ (pc[t] = "go_select" /\ pc'[t] = "done") =>
            \A o \in orders : o.id \in call'[t].result => o.user_id = call[t].user]_vars

\* C18: no shopper-facing query exposes an inactive product: what
\* getProducts, getProductById and getFeaturedProducts return, and the
\* products embedded in the rows of a cart, wishlist or order read, are active
\* when the query is answered.
C18_NoInactiveProductExposed ==
  [][\A t \in Tasks :
       /\ (pc[t] \in {"ps_select", "p_select", "f_select", "wl_select", "uo_select",
                      "go_select"} /\ pc'[t] = "done") =>
            \A p \in call'[t].exposed : is_active[p]
       /\ (pc[t] = "load" /\ pc'[t] = "done" /\ ~call'[t].netfail) =>
            \A x \in cartItems'[call[t].ctx] : ~x.products.isNull => is_active[x.product_id]]_vars

\* the cart was loaded with a line of a retired product and the product
\* came back hidden
C18_Witness ==
  \E c \in Ctxs : \E x \in cartItems[c] : x.products.isNull /\ ~is_active[x.product_id]

\* C19: getProducts(filters) returns exactly the active products that satisfy
\* every supplied filter: category equality, price >= minPrice, price <=
\* maxPrice, and the search term contained, case ignored, in the name or the
\* description; a filter not supplied (an empty category or term included)
\* restricts nothing and a price bound of 0 is a supplied one.
C19_GetProductsExact ==
  [][LET Contains(term, text) ==
           \E i \in 0..(Len(text) - Len(term)) :
             \A j \in 1..Len(term) : Lower(term[j]) = Lower(text[i + j])
     IN
     \A t \in Tasks :
       (pc[t] = "ps_select" /\ pc'[t] = "done" /\ ~call'[t].netfail) =>
         call'[t].result =
           {p \in Products :
              /\ is_active[p]
              /\ Truthy(call[t].filters.category) =>
                   catalog[p].category_id = call[t].filters.category
              /\ \A v \in call[t].filters.minPrice : products[p].price >= v
              /\ \A v \in call[t].filters.maxPrice : products[p].price <= v
              /\ \A x \in call[t].filters.search :
                   Contains(x, catalog[p].name) \/ Contains(x, catalog[p].description)}]_vars

\* C21: updateCartItem(line, qty) with qty > 0 sets that line's quantity to
\* exactly qty and leaves every other cart line unchanged; no upper bound is
\* checked: whatever the product's stock_quantity, only a failed request makes
\* the call raise.
C21_UpdateSetsQuantity ==
  [][\A t \in Tasks :
       (pc[t] = "update" /\ call[t].op = "updateCartItem" /\ call[t].quantity > 0
          /\ pc'[t] # "update") =>
         /\ pc'[t] = "done" => call'[t].netfail
         /\ pc'[t] # "done" =>
              /\ \A r \in cart_items :
                   IF r.id = call[t].itemId
                   THEN [r EXCEPT !.quantity = call[t].quantity] \in cart_items'
                   ELSE r \in cart_items'
              /\ Cardinality(cart_items') = Cardinality(cart_items)]_vars

\* an updateCartItem returned having set its line above the product's stock,
\* next to another line of the cart
C21_Witness ==
  \E t \in Tasks :
    /\ pc[t] = "done" /\ call[t].op = "updateCartItem" /\ call[t].err = "none"
    /\ ~call[t].netfail
    /\ \E r \in cart_items :
         /\ r.id = call[t].itemId /\ r.quantity = call[t].argQty
         /\ r.quantity > stock_quantity[r.product_id]
    /\ Cardinality(cart_items) = 2

\* C22: createOrder does not check quantities against stock and modifies no
\* product: for a cart with lines, whatever their quantities and the stock,
\* only a failed request makes the order and order-line inserts raise, and no
\* step of createOrder changes the stock_quantity or the price of a product.
C22_OrderIgnoresStock ==
  [][\A t \in Tasks :
       (pc[t] \in OrderPcs /\ pc'[t] # pc[t]) =>
         /\ stock_quantity' = stock_quantity
         /\ products' = products
         /\ (call[t].nItems >= 1 /\ pc'[t] = "done" /\ pc[t] # "co_cart") => call'[t].netfail]_vars

\* a createOrder returned its order, which has a line whose quantity exceeds
\* the product's stock
C22_Witness ==
  \E t \in Tasks :
    /\ pc[t] = "done" /\ call[t].op = "createOrder" /\ call[t].err = "none"
    /\ \E oi \in order_items :
         oi.order_id = call[t].orderId /\ oi.quantity > stock_quantity[oi.product_id]

\* C23: for every list of cart items the cart context holds, totalAmount is
\* the sum over the items of quantity * the joined product's price (an item
\* without joined product adding nothing) and totalItems is the sum of the
\* quantities; both are 0 for an empty cart. The sums are counted out as the
\* number of (item, unit) and (item, unit, cent) triples.
C23_TotalsAreSums ==
  \A c \in Ctxs :
    /\ totalItems(cartItems[c]) =
         Cardinality(UNION {{<<x.id, k>> : k \in 1..x.quantity} : x \in cartItems[c]})
    /\ totalAmount(cartItems[c]) =
         Cardinality(UNION {{<<x.id, k, j>> : k \in 1..x.quantity, j \in 1..x.products.price} :
                              x \in {y \in cartItems[c] : ~y.products.isNull}})
    /\ cartItems[c] = {} => totalItems(cartItems[c]) = 0 /\ totalAmount(cartItems[c]) = 0

\* the cart context holds two items, one of them with a quantity above 1
C23_Witness ==
  \E c \in Ctxs :
    /\ Cardinality(cartItems[c]) = 2
    /\ \E x \in cartItems[c] : x.quantity > 1 /\ ~x.products.isNull

\* C30: createOrder called with a cart item that carries no joined product
\* raises before any store write: no request of such a call is ever pending,
\* the call that ends with the TypeError leaves orders, order lines and cart
\* lines as they were, and the cart context's totalAmount counts that item
\* as 0.
C30_NullProductRaisesEarly ==
  [][/\ \A t \in Tasks :
          pc'[t] \in OrderPcs => ~\E x \in call'[t].cartItems : x.products.isNull
     /\ \A t \in Tasks, c \in Ctxs :
          (pc[t] = "idle" /\ pc'[t] = "done" /\ call'[t].op = "createOrder"
             /\ \E x \in cartItems[c] : x.products.isNull /\ user[c] = call'[t].user) =>
            /\ call'[t].err = "TypeError"
            /\ orders' = orders /\ order_items' = order_items /\ cart_items' = cart_items
     /\ \A c \in Ctxs :
          totalAmount(cartItems'[c]) =
            totalAmount({x \in cartItems'[c] : ~x.products.isNull})]_vars

\* a createOrder ended with the TypeError, the user's cart lines are in place
\* and no order exists
C30_Witness ==
  \E t \in Tasks :
    /\ pc[t] = "done" /\ call[t].op = "createOrder" /\ call[t].err = "TypeError"
    /\ \E r \in cart_items : r.user_id = call[t].user
    /\ orders = {} /\ order_items = {}

\* C24: a store error inside createOrder is raised to the caller and nothing
\* already written is rolled back: when the order insert fails, no order and
\* no order line is created and no cart line is deleted; when the order-line
\* insert fails, the error is raised, the order already inserted stays in the
\* store, and no cart line is deleted.
C24_StoreErrorRaisedNoRollback ==
  [][\A t \in Tasks :
       /\ (pc[t] = "co_order" /\ pc'[t] # "co_order" /\ orders' = orders) =>
            /\ pc'[t] = "done" /\ call'[t].err # "none"
            /\ order_items' = order_items /\ cart_items' = cart_items
       /\ (pc[t] = "co_items" /\ pc'[t] # "co_items" /\ call[t].nItems >= 1
             /\ order_items' = order_items) =>
            /\ pc'[t] = "done" /\ call'[t].err # "none"
            /\ \E o \in orders' : o.id = call[t].orderId
            /\ orders' = orders /\ cart_items' = cart_items]_vars

\* a createOrder raised the error of its order-line insert: its order is in
\* the store without lines and the user's cart lines are in place
C24_Witness ==
  \E t \in Tasks :
    /\ pc[t] = "done" /\ call[t].op = "createOrder" /\ call[t].err = "network"
    /\ \E o \in orders : o.id = call[t].orderId
    /\ ~\E oi \in order_items : oi.order_id = call[t].orderId
    /\ \E r \in cart_items : r.user_id = call[t].user

\* C25: every cart line createOrder deletes is represented in the order it
\* created, with the same product and quantity: a line added from another
\* session after the cart snapshot was taken is never deleted without being
\* ordered.
C25_DeletedLinesAreOrdered ==
  [][\A t \in Tasks :
       (pc[t] = "co_cart" /\ pc'[t] # "co_cart") =>
         \A r \in cart_items \ cart_items' :
           \E oi \in order_items' :
             /\ oi.order_id = call[t].orderId
             /\ oi.product_id = r.product_id
             /\ oi.quantity = r.quantity]_vars

\* C27: whenever no cart operation is in flight and the last cart operation
\* (addToCart, updateCartItem, removeFromCart, clearCart, checkout) returned
\* without raising, cartItems equals the store's cart lines of the signed-in
\* user, ids and quantities.
C27_CartItemsMirrorStore ==
  \A t \in Tasks :
    (/\ pc[t] = "done"
     /\ \A o \in Tasks \ {t} : pc[o] = "idle"
     /\ call[t].op \in {"addToCart", "updateCartItem", "removeFromCart",
                        "clearCart", "handleSubmit"}
     /\ call[t].err = "none") =>
      {<<x.id, x.quantity>> : x \in cartItems["c1"]} =
        {<<r.id, r.quantity>> : r \in {k \in cart_items : k.user_id = user["c1"]}}

\* C28: two overlapping addToCart(p, q1) and addToCart(p, q2) of the same
\* user, begun on the same stored quantity of the line: once both returned
\* without error, the line has that initial quantity plus q1 plus q2.
C28_OverlappingAddsSum ==
  \A t, o \in Tasks :
    (/\ t # o
     /\ pc[t] = "done" /\ pc[o] = "done"
     /\ call[t].op = "addToCart" /\ call[o].op = "addToCart"
     /\ call[t].user = call[o].user /\ call[t].productId = call[o].productId
     /\ call[t].argQty >= 1 /\ call[o].argQty >= 1
     /\ call[t].err = "none" /\ call[o].err = "none"
     /\ call[o].overlapped
     /\ call[t].lineAtCall = call[o].lineAtCall) =>
      LineQty(call[t].user, call[t].productId) =
        call[t].lineAtCall + call[t].argQty + call[o].argQty

\* C29: a cart content becomes at most one order: after createOrder succeeded,
\* no later submission of the checkout page creates a second order from the
\* same lines - no order is inserted for lines that an order of the user
\* already holds and that its createOrder removed from the stored cart.
C29_CartOrderedOnce ==
  [][\A t \in Tasks :
       (/\ pc[t] = "co_order" /\ pc'[t] = "co_items"
        /\ call[t].op = "handleSubmit"
        /\ \A x \in call[t].cartItems : ~\E r \in cart_items : r.id = x.id) =>
         ~\E o \in orders :
            /\ o.user_id = call[t].user
            /\ {oi \in order_items : oi.order_id = o.id} =
                 OrderItemsOf(call[t].cartItems, o.id)]_vars

\* C26: in every state of the cart context, every item in cartItems belongs
\* to the currently signed-in user and cartItems is empty when no user is
\* signed in, also when the response of a loadCartItems request started for
\* the previous user arrives after the user signed out or changed.
C26_CartItemsOfSignedInUser ==
  \A c \in Ctxs :
    /\ \A x \in cartItems[c] : x.user_id = user[c]
    /\ user[c] = NoUser => cartItems[c] = {}

====
